---- MODULE Spec2Model ----
\* Model of aithing-app/src-tauri/src/lib.rs: the three process-wide stores
\* (APP_HANDLE, WINDOW_STATE, APP_SETTINGS) behind parking_lot RwLocks, the
\* settings persistence helpers, the Tauri commands, the global-shortcut
\* handler and the setup closure of run().
EXTENDS Integers, Sequences, FiniteSets, TLC

\* Number of threads that invoke commands concurrently.
NThreads == 2
Threads == 1..NThreads

\* ---------------------------------------------------------------------------
\* DATA TYPES
\* ---------------------------------------------------------------------------

\* struct AppSettings: three booleans.
AppSettings ==
    [show_in_screenshot : BOOLEAN, open_at_login : BOOLEAN, shortcuts_enabled : BOOLEAN]

\* A Default impl that turns shortcuts off.
DefaultSettings_allFalse ==
    [show_in_screenshot |-> FALSE, open_at_login |-> FALSE, shortcuts_enabled |-> FALSE]

\* impl Default for AppSettings.
DefaultSettings ==
    [show_in_screenshot |-> FALSE, open_at_login |-> FALSE, shortcuts_enabled |-> TRUE]

\* Option / Result values are sequences of length at most one.
None == <<>>
Some(v) == <<v>>

\* ---------------------------------------------------------------------------
\* serde_json values, as far as the "settings" entry needs them: null, an
\* array of primitives, or an object from field names to primitives.  A
\* primitive is a JSON boolean or a JSON string.
\* ---------------------------------------------------------------------------
NoFields == [k \in {} |-> "string"]
JsonNull == [kind |-> "null", arr |-> <<>>, obj |-> NoFields]
JsonArray(a) == [kind |-> "array", arr |-> a, obj |-> NoFields]
JsonObject(o) == [kind |-> "object", arr |-> <<>>, obj |-> o]
JsonBool(b) == IF b THEN "true" ELSE "false"
IsJsonBool(p) == p \in {"true", "false"}

\* A Serialize impl that writes two fields under each other's name.
to_value_swapped(s) ==
    JsonObject([show_in_screenshot |-> JsonBool(s.open_at_login),
                open_at_login |-> JsonBool(s.show_in_screenshot),
                shortcuts_enabled |-> JsonBool(s.shortcuts_enabled)])

\* serde_json::to_value(&AppSettings): derive(Serialize) writes a map with one
\* entry per field.  It cannot fail for a struct of booleans.
to_value(s) ==
    JsonObject([show_in_screenshot |-> JsonBool(s.show_in_screenshot),
                open_at_login |-> JsonBool(s.open_at_login),
                shortcuts_enabled |-> JsonBool(s.shortcuts_enabled)])

\* serde_json::from_value::<AppSettings>: derive(Deserialize) without
\* serde(default) or deny_unknown_fields.  A map needs the three fields, each a
\* boolean, and ignores other keys; a sequence needs exactly three booleans in
\* field order; anything else is an error (None).
from_value(v) ==
    IF v.kind = "object"
    THEN IF /\ {"show_in_screenshot", "open_at_login", "shortcuts_enabled"} \subseteq DOMAIN v.obj
            /\ IsJsonBool(v.obj["show_in_screenshot"])
            /\ IsJsonBool(v.obj["open_at_login"])
            /\ IsJsonBool(v.obj["shortcuts_enabled"])
         THEN Some([show_in_screenshot |-> v.obj["show_in_screenshot"] = "true",
                    open_at_login |-> v.obj["open_at_login"] = "true",
                    shortcuts_enabled |-> v.obj["shortcuts_enabled"] = "true"])
         ELSE None
    ELSE IF v.kind = "array"
    THEN IF Len(v.arr) = 3 /\ \A i \in 1..3 : IsJsonBool(v.arr[i])
         THEN Some([show_in_screenshot |-> v.arr[1] = "true",
                    open_at_login |-> v.arr[2] = "true",
                    shortcuts_enabled |-> v.arr[3] = "true"])
         ELSE None
    ELSE None

\* The store "aithing-store.json": a map from keys to JSON values; this
\* program only ever uses the key "settings".
EmptyStore == [k \in {} |-> JsonNull]
StoreWith(v) == [k \in {"settings"} |-> v]
\* store.get("settings")
StoreGet(st) == IF "settings" \in DOMAIN st THEN Some(st["settings"]) ELSE None

\* Contents the store can hold when the process starts: nothing, entries that
\* do not decode, and entries that do.
MalformedEntries ==
    { JsonNull,
      JsonObject([show_in_screenshot |-> "true", open_at_login |-> "false"]),
      JsonObject([show_in_screenshot |-> "true", open_at_login |-> "string",
                  shortcuts_enabled |-> "true"]) }
DecodableEntries ==
    { to_value([show_in_screenshot |-> TRUE, open_at_login |-> TRUE,
                shortcuts_enabled |-> FALSE]),
      JsonObject([show_in_screenshot |-> "false", open_at_login |-> "true",
                  shortcuts_enabled |-> "false", theme |-> "string"]),
      JsonArray(<<"false", "true", "true">>) }
InitialStores ==
    {EmptyStore} \cup {StoreWith(v) : v \in MalformedEntries \cup DecodableEntries}

\* ---------------------------------------------------------------------------
\* parking_lot::RwLock.  writer is the thread that owns the writer bit (0 when
\* none does); readers are the threads holding a read guard.  A writer first
\* takes the writer bit and then waits for the readers to drain; a reader
\* cannot enter while the writer bit is taken.
\* ---------------------------------------------------------------------------
FreeLock == [writer |-> 0, readers |-> {}]

\* A read() that does not look at the writer bit.
CanRead_ignoreWriter(l) == TRUE

CanRead(l) == l.writer = 0

\* A read guard whose drop leaves the reader counted.
DropReader_leak(l, t) == l
CanTakeWriterBit(l) == l.writer = 0
CanWrite(l, t) == l.writer = t /\ l.readers = {}
TakeWriterBit(l, t) == [l EXCEPT !.writer = t]
AddReader(l, t) == [l EXCEPT !.readers = @ \cup {t}]
DropReader(l, t) == [l EXCEPT !.readers = @ \ {t}]
DropWriter(l) == [l EXCEPT !.writer = 0]

\* ---------------------------------------------------------------------------
\* struct WindowState.  The f64 fields are modelled by integers.
\* ---------------------------------------------------------------------------
\* Lazy initialiser of WINDOW_STATE.
InitialWindowState ==
    [is_visible |-> TRUE, is_expanded |-> FALSE, width |-> 660, height |-> 600,
     x |-> 0, y |-> 0]

\* Values a caller passes to set_window_state: serde accepts any f64, so zero
\* and negative dimensions are among them.
WindowStateInputs ==
    { [is_visible |-> FALSE, is_expanded |-> TRUE, width |-> 800, height |-> 700,
       x |-> 10, y |-> 20],
      [is_visible |-> TRUE, is_expanded |-> TRUE, width |-> 400, height |-> 300,
       x |-> 30, y |-> 40],
      [is_visible |-> FALSE, is_expanded |-> FALSE, width |-> 0, height |-> -1,
       x |-> -5, y |-> 50] }

\* A struct copy is not one machine instruction: it is modelled as two moves,
\* the first three fields and then the last three.
CopyFirstHalf(dst, src) ==
    [dst EXCEPT !.is_visible = src.is_visible, !.is_expanded = src.is_expanded,
                !.width = src.width]
CopySecondHalf(dst, src) ==
    [dst EXCEPT !.height = src.height, !.x = src.x, !.y = src.y]

\* ---------------------------------------------------------------------------
\* Global shortcuts.  A Shortcut is its modifier set and key code; id() is
\* injective on them.
\* ---------------------------------------------------------------------------
Shortcut(mods, key) == [mods |-> mods, key |-> key]
ShortcutId(sc) == <<sc.mods, sc.key>>
CtrlAltSpace == Shortcut({"ALT", "CONTROL"}, "Space")
CtrlSpace == Shortcut({"CONTROL"}, "Space")
\* The array `shortcuts` of set_shortcuts_enabled and of the setup closure.
shortcuts == <<CtrlAltSpace, CtrlSpace>>
\* Shortcuts the handler can be called with.
ShortcutInputs ==
    {CtrlAltSpace, CtrlSpace, Shortcut({"ALT"}, "Space"), Shortcut({"CONTROL"}, "KeyA")}
ShortcutStates == {"Pressed", "Released"}

VARIABLES
    phase,          \* position of run(): the setup closure's steps, then "running"
    APP_HANDLE,     \* Option<AppHandle>
    APP_SETTINGS,   \* AppSettings behind settings_lock
    settings_lock,
    WINDOW_STATE,   \* WindowState behind window_lock
    window_lock,
    store,          \* the store's entries
    saved,          \* the file on disk holds the store's entries
    load_opened,    \* app.store(..) returned Ok in load_settings_from_store
    visible,        \* the main window's visibility, as the OS has it
    registered,     \* shortcuts registered with the OS
    pc,             \* per thread: the command step it is at
    settings_arg,   \* set_settings: parameter `settings`
    settings_ret,   \* get_settings: the value the latest call returned
    state_arg,      \* set_window_state: parameter `state`
    state_ret,      \* get_window_state: the clone being built / returned
    is_visible,     \* toggle_visibility: local `is_visible`
    toggle_ret,     \* toggle_visibility: returned Result
    enable_call,    \* the latest set_shortcuts_enabled call and its result
    dispatch,       \* the latest handler call and the action it resolved
    emitted,        \* app.emit("shortcut-triggered", ..) calls made
    delivered,      \* emit calls that reached a listener
    presses,        \* history: Pressed events of bound combinations handled
    lastSet         \* history: parameter of the latest set_settings write

vars == <<phase, APP_HANDLE, APP_SETTINGS, settings_lock, WINDOW_STATE, window_lock,
          store, saved, load_opened, visible, registered, pc, settings_arg,
          settings_ret, state_arg, state_ret, is_visible, toggle_ret, enable_call,
          dispatch, emitted, delivered, presses, lastSet>>

settingsVars == <<APP_SETTINGS, settings_lock, store, saved, settings_arg, settings_ret, lastSet>>
windowVars == <<WINDOW_STATE, window_lock, state_arg, state_ret>>
toggleVars == <<visible, is_visible, toggle_ret>>
shortcutVars == <<registered, enable_call, dispatch, emitted, delivered, presses>>
setupVars == <<phase, APP_HANDLE, load_opened>>

NoEnableCall == [called |-> FALSE, enabled |-> FALSE, refused |-> {}, before |-> {},
                 attempted |-> {}, ret |-> "none"]
NoDispatch == [shortcut |-> CtrlSpace, state |-> "none", action |-> "none"]

\* The statics' initialisers; the store holds whatever an earlier run left.
Init ==
    /\ phase = "setup_handle"
    /\ APP_HANDLE = None
    /\ APP_SETTINGS = DefaultSettings
    /\ settings_lock = FreeLock
    /\ WINDOW_STATE = InitialWindowState
    /\ window_lock = FreeLock
    /\ store \in InitialStores
    /\ saved = TRUE
    /\ load_opened = FALSE
    /\ visible = TRUE
    /\ registered = {}
    /\ pc = [t \in Threads |-> "idle"]
    /\ settings_arg = [t \in Threads |-> DefaultSettings]
    /\ settings_ret = None
    /\ state_arg = [t \in Threads |-> InitialWindowState]
    /\ state_ret = [t \in Threads |-> None]
    /\ is_visible = [t \in Threads |-> FALSE]
    /\ toggle_ret = [t \in Threads |-> None]
    /\ enable_call = NoEnableCall
    /\ dispatch = NoDispatch
    /\ emitted = 0
    /\ delivered = 0
    /\ presses = 0
    /\ lastSet = None

\* ---------------------------------------------------------------------------
\* SETTINGS STORAGE
\* ---------------------------------------------------------------------------

\* A load that zeroes the settings when the entry does not decode.
LoadedSettings_resetOnError(opened, st, current) ==
    IF opened /\ StoreGet(st) # None /\ from_value(StoreGet(st)[1]) # None
    THEN from_value(StoreGet(st)[1])[1]
    ELSE DefaultSettings_allFalse

\* load_settings_from_store: the value APP_SETTINGS holds afterwards.  Three
\* nested `if let`: the store opens, the key is there, the value decodes; only
\* then is *app_settings assigned.
LoadedSettings(opened, st, current) ==
    IF opened
    THEN IF StoreGet(st) # None
         THEN IF from_value(StoreGet(st)[1]) # None
              THEN from_value(StoreGet(st)[1])[1]
              ELSE current
         ELSE current
    ELSE current

\* An assignment that keeps the old shortcuts_enabled.
Assigned_keepShortcuts(old, new) ==
    [new EXCEPT !.shortcuts_enabled = old.shortcuts_enabled]

\* `*app_settings = settings;`
Assigned(old, new) == new

\* ---------------------------------------------------------------------------
\* run(): the setup closure
\* ---------------------------------------------------------------------------

\* `*handle = Some(app.handle().clone());`
SetupHandle ==
    /\ phase = "setup_handle"
    /\ APP_HANDLE' = Some("app")
    /\ phase' = "setup_load"
    /\ UNCHANGED <<load_opened, settingsVars, windowVars, toggleVars, shortcutVars, pc>>

\* load_settings_from_store(app.handle()); it returns (), whatever happened.
SetupLoad ==
    /\ phase = "setup_load"
    /\ CanTakeWriterBit(settings_lock) /\ settings_lock.readers = {}
    /\ \E opened \in BOOLEAN :
          /\ load_opened' = opened
          /\ APP_SETTINGS' = LoadedSettings(opened, store, APP_SETTINGS)
    /\ phase' = "setup_panel"
    /\ UNCHANGED <<APP_HANDLE, settings_lock, store, saved, settings_arg, settings_ret,
                   lastSet, windowVars, toggleVars, shortcutVars, pc>>

\* init_nspanel: get_webview_window("main").unwrap() panics without a window.
SetupPanel ==
    /\ phase = "setup_panel"
    /\ \E found \in BOOLEAN : phase' = IF found THEN "setup_register" ELSE "aborted"
    /\ UNCHANGED <<APP_HANDLE, load_opened, settingsVars, windowVars, toggleVars,
                   shortcutVars, pc>>

\* ---------------------------------------------------------------------------
\* TAURI COMMANDS: settings
\* ---------------------------------------------------------------------------

\* get_settings: APP_SETTINGS.read().clone(); the guard is a temporary.
get_settings(t) ==
    /\ phase = "running" /\ pc[t] = "idle"
    /\ CanRead(settings_lock)
    /\ settings_ret' = Some(APP_SETTINGS)
    /\ UNCHANGED <<setupVars, APP_SETTINGS, settings_lock, store, saved, settings_arg,
                   lastSet, windowVars, toggleVars, shortcutVars, pc>>

\* set_settings, entry: APP_SETTINGS.write() takes the writer bit.
set_settings_lock(t) ==
    /\ phase = "running" /\ pc[t] = "idle"
    /\ CanTakeWriterBit(settings_lock)
    /\ \E settings \in AppSettings :
          settings_arg' = [settings_arg EXCEPT ![t] = settings]
    /\ settings_lock' = TakeWriterBit(settings_lock, t)
    /\ pc' = [pc EXCEPT ![t] = "set_settings_write"]
    /\ UNCHANGED <<setupVars, APP_SETTINGS, store, saved, settings_ret, lastSet,
                   windowVars, toggleVars, shortcutVars>>

\* set_settings: the write guard is granted, the value assigned, and the guard
\* dropped at the end of the inner block.
set_settings_write(t) ==
    /\ pc[t] = "set_settings_write"
    /\ CanWrite(settings_lock, t)
    /\ APP_SETTINGS' = Assigned(APP_SETTINGS, settings_arg[t])
    /\ lastSet' = Some(settings_arg[t])
    /\ settings_lock' = DropWriter(settings_lock)
    /\ settings_arg' = [settings_arg EXCEPT ![t] = DefaultSettings]
    /\ pc' = [pc EXCEPT ![t] = "save_open"]
    /\ UNCHANGED <<setupVars, store, saved, settings_ret, windowVars, toggleVars,
                   shortcutVars>>

\* save_settings_to_store: `if let Ok(store) = app.store(..)`, on Err the
\* function returns without a word; then `let settings = APP_SETTINGS.read();`,
\* a guard that lives to the end of the `if let` block.
save_open(t) ==
    /\ pc[t] = "save_open"
    /\ \E opened \in BOOLEAN :
          IF opened
          THEN /\ CanRead(settings_lock)
               /\ settings_lock' = AddReader(settings_lock, t)
               /\ pc' = [pc EXCEPT ![t] = "save_set"]
          ELSE /\ settings_lock' = settings_lock
               /\ pc' = [pc EXCEPT ![t] = "idle"]
    /\ UNCHANGED <<setupVars, APP_SETTINGS, store, saved, settings_arg, settings_ret,
                   lastSet, windowVars, toggleVars, shortcutVars>>

\* `store.set("settings", json)` with json = to_value(&*settings).
save_set(t) ==
    /\ pc[t] = "save_set"
    /\ store' = StoreWith(to_value(APP_SETTINGS))
    /\ saved' = FALSE
    /\ pc' = [pc EXCEPT ![t] = "save_save"]
    /\ UNCHANGED <<setupVars, APP_SETTINGS, settings_lock, settings_arg, settings_ret,
                   lastSet, windowVars, toggleVars, shortcutVars>>

\* `let _ = store.save();` then the block ends and the read guard is dropped.
save_save(t) ==
    /\ pc[t] = "save_save"
    /\ \E ok \in BOOLEAN : saved' = IF ok THEN TRUE ELSE saved
    /\ settings_lock' = DropReader(settings_lock, t)
    /\ pc' = [pc EXCEPT ![t] = "idle"]
    /\ UNCHANGED <<setupVars, APP_SETTINGS, store, settings_arg, settings_ret, lastSet,
                   windowVars, toggleVars, shortcutVars>>

\* ---------------------------------------------------------------------------
\* TAURI COMMANDS: window state
\* ---------------------------------------------------------------------------

\* get_window_state, entry: WINDOW_STATE.read().
get_window_state_lock(t) ==
    /\ phase = "running" /\ pc[t] = "idle"
    /\ CanRead(window_lock)
    /\ window_lock' = AddReader(window_lock, t)
    /\ state_ret' = [state_ret EXCEPT ![t] = None]
    /\ pc' = [pc EXCEPT ![t] = "get_window_state_clone"]
    /\ UNCHANGED <<setupVars, settingsVars, WINDOW_STATE, state_arg, toggleVars,
                   shortcutVars>>

\* .clone(), first half.
get_window_state_clone(t) ==
    /\ pc[t] = "get_window_state_clone"
    /\ state_ret' = [state_ret EXCEPT
                        ![t] = Some(CopyFirstHalf(InitialWindowState, WINDOW_STATE))]
    /\ pc' = [pc EXCEPT ![t] = "get_window_state_return"]
    /\ UNCHANGED <<setupVars, settingsVars, WINDOW_STATE, window_lock, state_arg,
                   toggleVars, shortcutVars>>

\* .clone(), second half; the temporary guard is dropped and the clone returned.
get_window_state_return(t) ==
    /\ pc[t] = "get_window_state_return"
    /\ state_ret' = [state_ret EXCEPT
                        ![t] = Some(CopySecondHalf(state_ret[t][1], WINDOW_STATE))]
    /\ window_lock' = DropReader(window_lock, t)
    /\ pc' = [pc EXCEPT ![t] = "idle"]
    /\ UNCHANGED <<setupVars, settingsVars, WINDOW_STATE, state_arg, toggleVars,
                   shortcutVars>>

\* set_window_state, entry: WINDOW_STATE.write() takes the writer bit.  The
\* parameter is whatever the caller sent: nothing inspects it.
set_window_state_lock(t) ==
    /\ phase = "running" /\ pc[t] = "idle"
    /\ CanTakeWriterBit(window_lock)
    /\ \E state \in WindowStateInputs :
          state_arg' = [state_arg EXCEPT ![t] = state]
    /\ window_lock' = TakeWriterBit(window_lock, t)
    /\ pc' = [pc EXCEPT ![t] = "set_window_state_write"]
    /\ UNCHANGED <<setupVars, settingsVars, WINDOW_STATE, state_ret, toggleVars,
                   shortcutVars>>

\* `*window_state = state;`, first half, once the write guard is granted.
set_window_state_write(t) ==
    /\ pc[t] = "set_window_state_write"
    /\ CanWrite(window_lock, t)
    /\ WINDOW_STATE' = CopyFirstHalf(WINDOW_STATE, state_arg[t])
    /\ pc' = [pc EXCEPT ![t] = "set_window_state_unlock"]
    /\ UNCHANGED <<setupVars, settingsVars, window_lock, state_arg, state_ret,
                   toggleVars, shortcutVars>>

\* `*window_state = state;`, second half; the guard is dropped on return.
set_window_state_unlock(t) ==
    /\ pc[t] = "set_window_state_unlock"
    /\ WINDOW_STATE' = CopySecondHalf(WINDOW_STATE, state_arg[t])
    /\ window_lock' = DropWriter(window_lock)
    /\ state_arg' = [state_arg EXCEPT ![t] = InitialWindowState]
    /\ pc' = [pc EXCEPT ![t] = "idle"]
    /\ UNCHANGED <<setupVars, settingsVars, state_ret, toggleVars, shortcutVars>>

\* ---------------------------------------------------------------------------
\* TAURI COMMANDS: toggle_visibility
\* ---------------------------------------------------------------------------
Ok(v) == [ok |-> TRUE, value |-> v, reason |-> ""]
Err(reason) == [ok |-> FALSE, value |-> FALSE, reason |-> reason]

\* A toggle that returns the visibility it read.
Toggled_same(was_visible) == was_visible

\* `!is_visible`: the visibility the window is put in, and the value returned.
Toggled(was_visible) == ~was_visible

\* app.get_webview_window("main").ok_or(..)?
toggle_visibility_window(t) ==
    /\ phase = "running" /\ pc[t] = "idle"
    /\ \E found \in BOOLEAN :
          IF found
          THEN /\ toggle_ret' = [toggle_ret EXCEPT ![t] = None]
               /\ pc' = [pc EXCEPT ![t] = "toggle_visibility_is_visible"]
          ELSE /\ toggle_ret' = [toggle_ret EXCEPT
                                    ![t] = Some(Err("Failed to get main window"))]
               /\ pc' = pc
    /\ UNCHANGED <<setupVars, settingsVars, windowVars, visible, is_visible, shortcutVars>>

\* An is_visible() whose error is noted but does not end the call (no `?`).
toggle_visibility_is_visible_noReturn(t) ==
    /\ pc[t] = "toggle_visibility_is_visible"
    /\ \E ok \in BOOLEAN :
          IF ok
          THEN /\ is_visible' = [is_visible EXCEPT ![t] = visible]
               /\ toggle_ret' = toggle_ret
          ELSE /\ toggle_ret' = [toggle_ret EXCEPT
                                    ![t] = Some(Err("Failed to check visibility"))]
               /\ is_visible' = is_visible
    /\ pc' = [pc EXCEPT ![t] = "toggle_visibility_apply"]
    /\ UNCHANGED <<setupVars, settingsVars, windowVars, visible, shortcutVars>>

\* window.is_visible().map_err(..)?
toggle_visibility_is_visible(t) ==
    /\ pc[t] = "toggle_visibility_is_visible"
    /\ \E ok \in BOOLEAN :
          IF ok
          THEN /\ is_visible' = [is_visible EXCEPT ![t] = visible]
               /\ pc' = [pc EXCEPT ![t] = "toggle_visibility_apply"]
               /\ toggle_ret' = toggle_ret
          ELSE /\ toggle_ret' = [toggle_ret EXCEPT
                                    ![t] = Some(Err("Failed to check visibility"))]
               /\ pc' = [pc EXCEPT ![t] = "idle"]
               /\ is_visible' = is_visible
    /\ UNCHANGED <<setupVars, settingsVars, windowVars, visible, shortcutVars>>

\* window.hide() or window.show(), then Ok(!is_visible).
toggle_visibility_apply(t) ==
    /\ pc[t] = "toggle_visibility_apply"
    /\ \E ok \in BOOLEAN :
          IF ok
          THEN /\ visible' = Toggled(is_visible[t])
               /\ toggle_ret' = [toggle_ret EXCEPT ![t] = Some(Ok(Toggled(is_visible[t])))]
          ELSE /\ visible' = visible
               /\ toggle_ret' = [toggle_ret EXCEPT
                                    ![t] = Some(Err(IF is_visible[t]
                                                    THEN "Failed to hide window"
                                                    ELSE "Failed to show window"))]
    /\ is_visible' = [is_visible EXCEPT ![t] = FALSE]
    /\ pc' = [pc EXCEPT ![t] = "idle"]
    /\ UNCHANGED <<setupVars, settingsVars, windowVars, shortcutVars>>

\* ---------------------------------------------------------------------------
\* Global shortcuts: registration
\* ---------------------------------------------------------------------------
\* Handler calls the model follows.
MaxEvents == 3

Range(seq) == {seq[i] : i \in DOMAIN seq}

\* register_multiple(shortcuts): one call, one Result for the whole array.  The
\* plugin registers the entries in order and returns at the first one the OS
\* turns down; a combination this process already holds is turned down too.
\* `refused` are the combinations the OS will not grant (held by another
\* program).  Gives the registrations afterwards, the entries tried and the
\* Result.
RECURSIVE register_multiple(_, _, _, _)
register_multiple(list, reg, refused, tried) ==
    IF list = <<>>
    THEN [ok |-> TRUE, registered |-> reg, attempted |-> tried]
    ELSE IF Head(list) \in reg \/ Head(list) \in refused
         THEN [ok |-> FALSE, registered |-> reg, attempted |-> tried \cup {Head(list)}]
         ELSE register_multiple(Tail(list), reg \cup {Head(list)}, refused,
                                tried \cup {Head(list)})

\* An unregister loop that stops at the first entry that fails (`?` in place of
\* `let _ =`).
RECURSIVE unregister_each_failFast(_, _, _)
unregister_each_failFast(list, reg, refused) ==
    IF list = <<>>
    THEN reg
    ELSE IF Head(list) \notin reg \/ Head(list) \in refused
         THEN reg
         ELSE unregister_each_failFast(Tail(list), reg \ {Head(list)}, refused)

\* `for shortcut in shortcuts { let _ = ..unregister(shortcut); }`: every entry
\* is tried and each Result dropped; an entry goes unless the OS refuses.
unregister_each(list, reg, refused) ==
    reg \ {sc \in Range(list) : sc \notin refused}

\* Setup: `if let Err(e) = ..register_multiple(shortcuts) { eprintln!(..) }`,
\* then Ok(()).  APP_SETTINGS is not consulted.
SetupRegister ==
    /\ phase = "setup_register"
    /\ \E refused \in SUBSET Range(shortcuts) :
          registered' = register_multiple(shortcuts, registered, refused, {}).registered
    /\ phase' = "running"
    /\ UNCHANGED <<APP_HANDLE, load_opened, settingsVars, windowVars, toggleVars,
                   enable_call, dispatch, emitted, delivered, presses, pc>>

\* set_shortcuts_enabled(app, enabled).  It takes no lock and touches neither
\* APP_SETTINGS nor the store.  It is called on the thread that owns the event
\* loop, so calls do not overlap.
set_shortcuts_enabled ==
    /\ phase = "running"
    /\ \E enabled \in BOOLEAN, refused \in SUBSET Range(shortcuts) :
          IF enabled
          THEN LET r == register_multiple(shortcuts, registered, refused, {})
               IN /\ registered' = r.registered
                  /\ enable_call' =
                        [called |-> TRUE, enabled |-> TRUE, refused |-> refused,
                         before |-> registered, attempted |-> r.attempted,
                         ret |-> IF r.ok THEN "Ok" ELSE "Failed to register shortcuts"]
          ELSE /\ registered' = unregister_each(shortcuts, registered, refused)
               /\ enable_call' =
                     [called |-> TRUE, enabled |-> FALSE, refused |-> refused,
                      before |-> registered, attempted |-> Range(shortcuts),
                      ret |-> "Ok"]
    /\ UNCHANGED <<setupVars, settingsVars, windowVars, toggleVars, dispatch, emitted,
                   delivered, presses, pc>>

\* ---------------------------------------------------------------------------
\* Global shortcuts: the handler closure
\* ---------------------------------------------------------------------------

\* A handler that does not look at event.state().
ResolveAction_anyState(id, state) ==
    IF id = ShortcutId(Shortcut({"ALT", "CONTROL"}, "Space")) THEN Some("toggle-visibility")
    ELSE IF id = ShortcutId(Shortcut({"CONTROL"}, "Space")) THEN Some("toggle-visibility")
    ELSE None

\* A handler whose match has a catch-all arm that resolves the action.
ResolveAction_anyShortcut(id, state) ==
    IF state = "Pressed" THEN Some("toggle-visibility") ELSE None

\* `if event.state() == Pressed { let action = match shortcut.id() {..}; .. }`:
\* the action, or None where the closure returns without emitting.
ResolveAction(id, state) ==
    IF state = "Pressed"
    THEN IF id = ShortcutId(Shortcut({"ALT", "CONTROL"}, "Space"))
         THEN Some("toggle-visibility")
         ELSE IF id = ShortcutId(Shortcut({"CONTROL"}, "Space"))
              THEN Some("toggle-visibility")
              ELSE None
    ELSE None

\* The plugin calls the closure with a shortcut and its event;
\* `let _ = app.emit("shortcut-triggered", action);` follows a resolved action,
\* once, and its Result (the event reached a listener or not) is dropped.
shortcut_handler ==
    /\ phase = "running"
    /\ emitted < MaxEvents /\ presses < MaxEvents
    /\ \E sc \in ShortcutInputs, state \in ShortcutStates, reached \in BOOLEAN :
          LET action == ResolveAction(ShortcutId(sc), state)
          IN /\ dispatch' = [shortcut |-> sc, state |-> state,
                             action |-> IF action = None THEN "none" ELSE action[1]]
             /\ emitted' = IF action = None THEN emitted ELSE emitted + 1
             /\ delivered' = IF action # None /\ reached THEN delivered + 1 ELSE delivered
             /\ presses' = IF state = "Pressed" /\ sc \in Range(shortcuts)
                           THEN presses + 1 ELSE presses
    /\ UNCHANGED <<setupVars, settingsVars, windowVars, toggleVars, registered,
                   enable_call, pc>>

\* ---------------------------------------------------------------------------
\* Specifications
\* ---------------------------------------------------------------------------
Setup == SetupHandle \/ SetupLoad \/ SetupPanel \/ SetupRegister

SettingsCommands ==
    \E t \in Threads :
        \/ get_settings(t)
        \/ set_settings_lock(t)
        \/ set_settings_write(t)
        \/ save_open(t)
        \/ save_set(t)
        \/ save_save(t)

WindowCommands ==
    \E t \in Threads :
        \/ get_window_state_lock(t)
        \/ get_window_state_clone(t)
        \/ get_window_state_return(t)
        \/ set_window_state_lock(t)
        \/ set_window_state_write(t)
        \/ set_window_state_unlock(t)

ToggleCommands ==
    \E t \in Threads :
        \/ toggle_visibility_window(t)
        \/ toggle_visibility_is_visible(t)
        \/ toggle_visibility_apply(t)

ShortcutCommands == set_shortcuts_enabled \/ shortcut_handler

\* The whole program.
Next == Setup \/ SettingsCommands \/ WindowCommands \/ ToggleCommands \/ ShortcutCommands
Spec == Init /\ [][Next]_vars

\* Startup followed by the settings commands.
NextSettings == Setup \/ SettingsCommands
SpecSettings == Init /\ [][NextSettings]_vars

\* The settings commands where no persistence step fails: the store opens at
\* load and at every save, and every store.save() succeeds.
NextWriteThrough ==
    \/ SetupHandle
    \/ (SetupLoad /\ load_opened')
    \/ SetupPanel
    \/ SetupRegister
    \/ \E t \in Threads :
          \/ get_settings(t)
          \/ set_settings_lock(t)
          \/ set_settings_write(t)
          \/ (save_open(t) /\ pc'[t] = "save_set")
          \/ save_set(t)
          \/ (save_save(t) /\ saved')
SpecWriteThrough == Init /\ [][NextWriteThrough]_vars

\* The commands that take a lock (get/set_settings with the write-through,
\* get/set_window_state) on all threads, with a store that opens and saves.
\* What a lock does depends on no value stored behind it, so each setter is
\* called with one value and the store starts empty.
InitLocks == Init /\ store = EmptyStore
LockCommand(t) ==
    \/ get_settings(t)
    \/ (set_settings_lock(t) /\ settings_arg'[t] = DefaultSettings_allFalse)
    \/ get_window_state_lock(t)
    \/ (set_window_state_lock(t) /\ state_arg'[t].width = 400)
\* The step of an invoked command that waits for a lock other threads keep
\* taking: the read() of the write-through.
LockContendedStep(t) == save_open(t) /\ pc'[t] = "save_set"
\* The other steps that carry an invoked command to its return; once one is
\* enabled it stays so until it is taken.
LockContinue(t) ==
    \/ set_settings_write(t)
    \/ save_set(t)
    \/ (save_save(t) /\ saved')
    \/ get_window_state_clone(t)
    \/ get_window_state_return(t)
    \/ set_window_state_write(t)
    \/ set_window_state_unlock(t)
NextLocks ==
    \/ SetupHandle
    \/ (SetupLoad /\ load_opened')
    \/ SetupPanel
    \/ (SetupRegister /\ registered' = {CtrlAltSpace, CtrlSpace})
    \/ \E t \in Threads : LockCommand(t) \/ LockContendedStep(t) \/ LockContinue(t)
\* Threads are scheduled fairly, and parking_lot hands a contended lock over
\* fairly: a read() that can be granted again and again is granted.
SpecLocks ==
    /\ InitLocks /\ [][NextLocks]_vars
    /\ \A t \in Threads : WF_vars(LockContinue(t)) /\ SF_vars(LockContendedStep(t))

\* Startup followed by the window-state commands.
NextWindow == Setup \/ WindowCommands
SpecWindow == Init /\ [][NextWindow]_vars

\* Startup followed by toggle_visibility calls.
NextToggle == Setup \/ ToggleCommands
SpecToggle == Init /\ [][NextToggle]_vars

\* Startup followed by shortcut registration calls and shortcut events.
NextShortcuts == Setup \/ ShortcutCommands
SpecShortcuts == Init /\ [][NextShortcuts]_vars

\* ---------------------------------------------------------------------------
\* Properties
\* ---------------------------------------------------------------------------

\* C1: settings round trip.  Every get_settings that follows a set_settings
\* returns exactly the parameter of the latest set_settings write, for all
\* eight AppSettings values, whether or not the store opened or saved.
C1_SettingsRoundTrip ==
    [][(settings_ret' # settings_ret /\ lastSet # None) => settings_ret' = lastSet]_vars

\* A get_settings has returned a non-default value that a finished
\* set_settings wrote although the store never opened (it holds no entry).
C1_Witness ==
    /\ \A t \in Threads : pc[t] = "idle"
    /\ lastSet # None /\ lastSet # Some(DefaultSettings)
    /\ settings_ret = lastSet
    /\ store = EmptyStore

\* C2: after load_settings_from_store, and until a set_settings writes, the
\* settings are the decoded entry when the store opened and its "settings"
\* entry decodes, and otherwise exactly show_in_screenshot=false,
\* open_at_login=false, shortcuts_enabled=true.
C2_LoadKeepsDefaults ==
    (phase \notin {"setup_handle", "setup_load"} /\ lastSet = None) =>
        IF /\ load_opened
           /\ StoreGet(store) # None
           /\ from_value(StoreGet(store)[1]) # None
        THEN APP_SETTINGS = from_value(StoreGet(store)[1])[1]
        ELSE APP_SETTINGS = [show_in_screenshot |-> FALSE, open_at_login |-> FALSE,
                             shortcuts_enabled |-> TRUE]

\* Startup has finished over an opened store whose entry does not decode.
C2_Witness ==
    /\ phase = "running" /\ lastSet = None
    /\ load_opened
    /\ StoreGet(store) # None
    /\ from_value(StoreGet(store)[1]) = None
    /\ APP_SETTINGS = [show_in_screenshot |-> FALSE, open_at_login |-> FALSE,
                       shortcuts_enabled |-> TRUE]

\* C3: toggle correctness.  toggle_visibility observes the window's
\* visibility, and a successful call returns its negation and leaves the
\* window in the returned state: from Visible it returns false and hides, from
\* Hidden it returns true and shows.
C3_ToggleCorrect ==
    [][\A t \in Threads :
          /\ (pc[t] = "toggle_visibility_is_visible" /\ pc'[t] = "toggle_visibility_apply")
                => is_visible'[t] = visible
          /\ (pc[t] = "toggle_visibility_apply" /\ toggle_ret'[t] # None
                /\ toggle_ret'[t][1].ok)
                => /\ toggle_ret'[t][1].value = ~is_visible[t]
                   /\ visible' = toggle_ret'[t][1].value]_vars

\* A toggle has returned true with the window Visible again, which takes an
\* earlier toggle that hid it.
C3_Witness ==
    /\ \A t \in Threads : pc[t] = "idle"
    /\ \E t \in Threads : toggle_ret[t] = Some(Ok(TRUE))
    /\ visible = TRUE

\* C4: shortcut dispatch.  The handler resolves "toggle-visibility" for a
\* Pressed event of one of the two bound combinations, and no action for a
\* Released event or for a combination outside the binding table.
C4_ShortcutDispatch ==
    dispatch.state # "none" =>
        dispatch.action =
            IF dispatch.state = "Pressed" /\ dispatch.shortcut \in {CtrlAltSpace, CtrlSpace}
            THEN "toggle-visibility"
            ELSE "none"

\* The handler has seen Control+Space released and resolved no action.
C4_Witness ==
    /\ dispatch.state = "Released"
    /\ dispatch.shortcut = CtrlSpace
    /\ dispatch.action = "none"

\* C5: partial registration failure.  When set_shortcuts_enabled(true) is
\* called with neither binding registered and the OS refuses exactly one of
\* the two, the other one is attempted and registered and the failure is
\* reported.
C5_PartialRegistration ==
    (/\ enable_call.called /\ enable_call.enabled
     /\ enable_call.before = {}
     /\ Cardinality(enable_call.refused) = 1) =>
          /\ Range(shortcuts) \ enable_call.refused \subseteq enable_call.attempted
          /\ Range(shortcuts) \ enable_call.refused \subseteq registered
          /\ enable_call.ret # "Ok"

\* C6: no torn window state.  Every value get_window_state has returned, and
\* the stored value whenever no write is half done, is the initial state or
\* one of the values passed to set_window_state, whole.
C6_NoTornWindowState ==
    /\ \A t \in Threads :
          (pc[t] = "idle" /\ state_ret[t] # None) =>
              state_ret[t][1] \in {InitialWindowState} \cup WindowStateInputs
    /\ (\A t \in Threads : pc[t] # "set_window_state_unlock") =>
          WINDOW_STATE \in {InitialWindowState} \cup WindowStateInputs

\* A get_window_state has returned a value that was set, while another
\* thread is in the middle of a set_window_state.
C6_Witness ==
    \E t, u \in Threads :
        /\ pc[t] = "idle" /\ state_ret[t] # None
        /\ state_ret[t][1] \in WindowStateInputs
        /\ pc[u] = "set_window_state_unlock"
        /\ state_arg[u] # state_ret[t][1]

\* C7: once set_shortcuts_enabled(e) has completed, shortcuts_enabled in the
\* settings equals e and the store holds those settings.
C7_IntentRecorded ==
    enable_call.called =>
        /\ APP_SETTINGS.shortcuts_enabled = enable_call.enabled
        /\ store = StoreWith(to_value(APP_SETTINGS))

\* C8: during store.set and store.save of the write-through, the thread holds
\* no guard of APP_SETTINGS.
C8_NoLockWhilePersisting ==
    \A t \in Threads :
        pc[t] \in {"save_set", "save_save"} =>
            t \notin settings_lock.readers /\ settings_lock.writer # t

\* C9: toggles are serialized: no two toggle_visibility calls are at the same
\* time between reading the visibility and applying its negation.
C9_TogglesSerialized ==
    \A t, u \in Threads :
        t # u => ~(pc[t] = "toggle_visibility_apply" /\ pc[u] = "toggle_visibility_apply")

\* C10: the stored WindowState always has width > 0 and height > 0.
C10_PositiveDimensions ==
    WINDOW_STATE.width > 0 /\ WINDOW_STATE.height > 0


\* C11: disabling is best effort.  set_shortcuts_enabled(false) tries to
\* unregister both bindings whatever happens to the first, returns Ok in every
\* case, and no binding whose unregistration succeeded is registered afterwards.
C11_DisableBestEffort ==
    (enable_call.called /\ ~enable_call.enabled) =>
        /\ enable_call.attempted = {CtrlAltSpace, CtrlSpace}
        /\ enable_call.ret = "Ok"
        /\ \A sc \in {CtrlAltSpace, CtrlSpace} :
              (sc \in enable_call.before /\ sc \notin enable_call.refused) =>
                  sc \notin registered

\* Both bindings were registered, the OS refused to unregister the first, and
\* the second is gone all the same.
C11_Witness ==
    /\ enable_call.called /\ ~enable_call.enabled
    /\ enable_call.before = {CtrlAltSpace, CtrlSpace}
    /\ enable_call.refused = {CtrlAltSpace}
    /\ registered = {CtrlAltSpace}
    /\ enable_call.ret = "Ok"


\* C12: a refused toggle aborts cleanly.  The step at which toggle_visibility
\* meets a missing window or a refused is_visible, hide or show returns an
\* error with its reason, ends the call (no presenter call follows), and
\* changes neither the window's visibility nor WINDOW_STATE nor APP_SETTINGS.
C12_RefusedToggleAborts ==
    [][\A t \in Threads :
          (toggle_ret'[t] # toggle_ret[t] /\ toggle_ret'[t] # None /\ ~toggle_ret'[t][1].ok)
             => /\ pc'[t] = "idle"
                /\ toggle_ret'[t][1].reason \in
                      {"Failed to get main window", "Failed to check visibility",
                       "Failed to hide window", "Failed to show window"}
                /\ visible' = visible
                /\ WINDOW_STATE' = WINDOW_STATE
                /\ APP_SETTINGS' = APP_SETTINGS]_vars

\* A toggle of the hidden window came back with the visibility query refused,
\* and the window is still hidden.
C12_Witness ==
    \E t \in Threads :
        /\ pc[t] = "idle"
        /\ toggle_ret[t] = Some(Err("Failed to check visibility"))
        /\ visible = FALSE


\* No command is in progress on any thread.
AllIdle == \A t \in Threads : pc[t] = "idle"

\* The store's "settings" entry decodes to the settings in memory, and the
\* file holds it.
PersistedIsCurrent ==
    /\ StoreGet(store) # None
    /\ from_value(StoreGet(store)[1]) = Some(APP_SETTINGS)
    /\ saved

\* C13, as stated: in every state after startup in which no set_settings is
\* in progress (and no persistence step has failed), the persisted "settings"
\* entry equals the settings in memory.
C13_PersistedAlwaysCurrent ==
    (phase = "running" /\ AllIdle) => PersistedIsCurrent

\* C13, amended: once a set_settings has written, in every state in which no
\* set_settings is in progress (and no persistence step has failed), the
\* persisted "settings" entry equals the settings in memory; so after any
\* interleaving of concurrent set_settings calls the entry is the value
\* get_settings returns, never a stale snapshot.
C13_WriteThrough ==
    (phase = "running" /\ AllIdle /\ lastSet # None) => PersistedIsCurrent

\* Concurrent set_settings calls have all returned, a get_settings has
\* returned the last value written, and the store holds that value.
C13_Witness ==
    /\ phase = "running" /\ AllIdle
    /\ lastSet # None /\ lastSet # Some(DefaultSettings)
    /\ settings_ret = lastSet
    /\ store = StoreWith(to_value(lastSet[1]))
    /\ saved


\* C14: the WindowState cache reflects the last applied visibility: when a
\* toggle_visibility has returned Ok(v) and the window is still in the state v
\* it left it in, WINDOW_STATE.is_visible is v.
C14_CacheReflectsVisibility ==
    \A t \in Threads :
        (/\ pc[t] = "idle"
         /\ toggle_ret[t] # None
         /\ toggle_ret[t][1].ok
         /\ toggle_ret[t][1].value = visible) =>
            WINDOW_STATE.is_visible = toggle_ret[t][1].value


\* C15: from any registration state, set_shortcuts_enabled(true) with an OS
\* that grants every new registration returns Ok and leaves both bindings
\* registered.
C15_EnableFromAnyState ==
    (enable_call.called /\ enable_call.enabled /\ enable_call.refused = {}) =>
        /\ enable_call.ret = "Ok"
        /\ registered = {CtrlAltSpace, CtrlSpace}


\* C16: at-most-once dispatch.  The handler makes exactly one emit call for
\* each Pressed event of a bound combination and none otherwise, so the
\* notifications never outnumber those events; an emit that reaches nobody is
\* not made again.
C16_AtMostOnceDispatch ==
    /\ emitted = presses
    /\ delivered <= emitted

\* Two bound presses were handled, one of the two emits reached nobody, and a
\* later Released event added no emit.
C16_Witness ==
    /\ presses = 2 /\ emitted = 2 /\ delivered = 1
    /\ dispatch.state = "Released"
    /\ dispatch.shortcut \in {CtrlAltSpace, CtrlSpace}


\* C17: startup honours the persisted shortcut toggle: when the settings
\* loaded at startup have shortcuts_enabled = false, no binding is registered
\* once setup has completed (and before any set_shortcuts_enabled call).
C17_StartupHonoursToggle ==
    (phase = "running" /\ ~enable_call.called /\ lastSet = None
        /\ ~APP_SETTINGS.shortcuts_enabled) =>
            registered = {}


\* The guards thread t holds.
HoldsSettings(t) == t \in settings_lock.readers \/ settings_lock.writer = t
HoldsWindow(t) == t \in window_lock.readers \/ window_lock.writer = t

\* C18: deadlock freedom.  A thread never holds guards of two locks at once,
\* holds none at the points where it calls read() or write() (so it never
\* asks again for a lock it holds), and under fair scheduling every command
\* that was invoked returns.
C18_DeadlockFree ==
    /\ [](\A t \in Threads :
            /\ ~(HoldsSettings(t) /\ HoldsWindow(t))
            /\ pc[t] \in {"idle", "save_open"} => ~HoldsSettings(t) /\ ~HoldsWindow(t))
    /\ \A t \in Threads : (pc[t] # "idle") ~> (pc[t] = "idle")

\* A set_settings holds the writer bit and waits for another thread's save,
\* which holds a read guard, to finish.
C18_Witness ==
    \E t, u \in Threads :
        /\ pc[t] = "set_settings_write" /\ settings_lock.writer = t
        /\ pc[u] = "save_save" /\ u \in settings_lock.readers

====
